---- MODULE Spec2Model ----
(***************************************************************************)
(* A model of l2org (src/l2org.py): the streaming LaTeX -> Org converter.  *)
(*                                                                         *)
(* Text is modelled as a sequence of lexemes (tokens).  Every space and    *)
(* every newline is a token of its own (" " and "\n"), every brace,        *)
(* bracket and comma is a token of its own, and a LaTeX command or a word  *)
(* is one token ("\\section", "a").  The substring tests of the source     *)
(* ("section" in nl) become tests on the tokens whose text contains the    *)
(* substring; slices, searches and splits work on token positions.         *)
(***************************************************************************)
EXTENDS Integers, Sequences, FiniteSets, TLC

(***************************************************************************)
(* Bounds of the model.                                                    *)
(***************************************************************************)
MaxLines == 3
MaxStrLen == 7

(***************************************************************************)
(* Sequence helpers (Python string primitives on token sequences).         *)
(***************************************************************************)
Min(S) == CHOOSE x \in S : \A y \in S : x <= y

Max(S) == CHOOSE x \in S : \A y \in S : x >= y

\* s[a:b] with 0-based Python offsets a, b (no negative offsets).
PySlice(s, a, b) == SubSeq(s, a + 1, IF b > Len(s) THEN Len(s) ELSE b)

\* s[a:]
PyFrom(s, a) == SubSeq(s, a + 1, Len(s))

\* s.count(t)
Count(s, t) == Cardinality({i \in DOMAIN s : s[i] = t})

\* 1-based position of the first element of s at or after position from
\* that lies in the set T; 0 when there is none.
FirstIn(s, from, T) ==
  LET I == {i \in from..Len(s) : s[i] \in T}
  IN IF I = {} THEN 0 ELSE Min(I)

\* 1-based position of the last element of s that lies in T; 0 when none.
LastIn(s, T) ==
  LET I == {i \in DOMAIN s : s[i] \in T}
  IN IF I = {} THEN 0 ELSE Max(I)

\* sub occurs in s at 1-based position i.
OccursAt(s, sub, i) ==
  /\ i >= 1
  /\ i + Len(sub) - 1 <= Len(s)
  /\ SubSeq(s, i, i + Len(sub) - 1) = sub

\* s.find(sub) from position from: 1-based position, 0 when absent.
Find(s, sub, from) ==
  LET I == {i \in from..Len(s) : OccursAt(s, sub, i)}
  IN IF I = {} THEN 0 ELSE Min(I)

\* sub in s
Contains(s, sub) == Find(s, sub, 1) # 0

\* s.split(sub) for a non-empty sub: the sequence of pieces.
RECURSIVE Split(_, _)
Split(s, sub) ==
  LET p == Find(s, sub, 1)
  IN IF p = 0
       THEN <<s>>
       ELSE <<SubSeq(s, 1, p - 1)>> \o Split(SubSeq(s, p + Len(sub), Len(s)), sub)

\* "".join(pieces)
RECURSIVE Flatten(_)
Flatten(ss) == IF ss = <<>> THEN <<>> ELSE Head(ss) \o Flatten(Tail(ss))

Whitespace == {" ", "\n"}

\* s.strip()
RECURSIVE Strip(_)
Strip(s) ==
  IF s = <<>> THEN <<>>
  ELSE IF Head(s) \in Whitespace THEN Strip(Tail(s))
  ELSE IF s[Len(s)] \in Whitespace THEN Strip(SubSeq(s, 1, Len(s) - 1))
  ELSE s

\* nl.strip() == ""
IsBlank(s) == \A i \in DOMAIN s : s[i] \in Whitespace

(***************************************************************************)
(* get_string_between_brackets: the Bracket-Span Extractor.                *)
(* The result is the triple (rs, j, i) of the source, with the 0-based     *)
(* offsets of the source.                                                  *)
(***************************************************************************)
RECURSIVE BracketScan(_, _, _, _, _, _, _)
BracketScan(string, start, stop, s_num, e_num, i, j) ==
  IF i >= Len(string)
    THEN [rs |-> <<>>, j |-> j, i |-> i]
    ELSE LET e  == string[i + 1]
             s2 == IF e = start THEN s_num + 1 ELSE s_num
             e2 == IF e # start /\ e = stop THEN e_num + 1 ELSE e_num
             j2 == IF s2 = 0 THEN j + 1 ELSE j
         IN IF s2 = e2 /\ s2 > 0
              THEN [rs |-> PySlice(string, j2 + 1, i), j |-> j2, i |-> i]
              ELSE BracketScan(string, start, stop, s2, e2, i + 1, j2)

\* A slip in the slice: the content starts at the opening delimiter.
get_string_between_brackets_slip(brackets, string) ==
  LET r == BracketScan(string, brackets[1], brackets[2], 0, 0, 0, 0)
  IN IF r.i < Len(string) THEN [r EXCEPT !.rs = PySlice(string, r.j, r.i)] ELSE r

get_string_between_brackets(brackets, string) ==
  BracketScan(string, brackets[1], brackets[2], 0, 0, 0, 0)

(***************************************************************************)
(* Lexemes.  CommandName gives the text of a command token without its     *)
(* leading backslash (the [1:-1] and [1:] slices of the source drop it).   *)
(***************************************************************************)
CommandName ==
  [t \in {"\\chapter", "\\section", "\\subsection", "\\subsubsection",
          "\\paragraph", "\\subparagraph", "\\abstract",
          "\\citep", "\\citet", "\\begin", "\\end", "\\documentclass",
          "\\author", "\\title", "\\date", "\\email", "\\usepackage"} |->
     CASE t = "\\chapter"        -> "chapter"
       [] t = "\\section"        -> "section"
       [] t = "\\subsection"     -> "subsection"
       [] t = "\\subsubsection"  -> "subsubsection"
       [] t = "\\paragraph"      -> "paragraph"
       [] t = "\\subparagraph"   -> "subparagraph"
       [] t = "\\abstract"       -> "abstract"
       [] t = "\\citep"          -> "citep"
       [] t = "\\citet"          -> "citet"
       [] t = "\\begin"          -> "begin"
       [] t = "\\end"            -> "end"
       [] t = "\\documentclass"  -> "documentclass"
       [] t = "\\author"         -> "author"
       [] t = "\\title"          -> "title"
       [] t = "\\date"           -> "date"
       [] t = "\\email"          -> "email"
       [] t = "\\usepackage"     -> "usepackage"]

\* Words of more than one character that are no command.
Words == {"section", "equation", "document", "article"}

\* text[1:] of a token sequence: the first character is dropped.  A word
\* that loses its first character is the token "?", equal to no other text.
DropFirstChar(s) ==
  IF s = <<>> THEN <<>>
  ELSE IF Head(s) \in DOMAIN CommandName THEN <<CommandName[Head(s)]>> \o Tail(s)
  ELSE IF Head(s) \in Words THEN <<"?">> \o Tail(s)
  ELSE Tail(s)

\* Tokens whose text contains "\cite" (and matches \\cit[a-z]+).
CiteTokens == {"\\citep", "\\citet"}

\* Tokens whose text contains "chapter" or "section".
SectionTokens ==
  {"\\chapter", "\\section", "\\subsection", "\\subsubsection", "section"}

(***************************************************************************)
(* line_latex_to_orgmode: the Line Rewriter.  Of its ordered substitution  *)
(* table the model keeps, in source order, every rule whose pattern can    *)
(* match a text over the lexemes of the model; the patterns of the other   *)
(* rules need a command, "$", "&" or "|" that no modelled text contains.   *)
(***************************************************************************)
\* re.sub(r"^%", r"#+latex: %", line)
RewriteComment(line) ==
  IF line # <<>> /\ Head(line) = "%"
    THEN <<"#+latex:", " ", "%">> \o Tail(line)
    ELSE line

\* re.sub(r"\~", r"\\nbsp{}", line)
RECURSIVE RewriteTilde(_)
RewriteTilde(line) ==
  IF line = <<>> THEN <<>>
  ELSE (IF Head(line) = "~" THEN <<"\\nbsp", "{", "}">> ELSE <<Head(line)>>)
         \o RewriteTilde(Tail(line))

\* re.sub(r"^ {1,99}", r"", line)
RECURSIVE RemoveLeadingSpaces(_)
RemoveLeadingSpaces(line) ==
  IF line # <<>> /\ Head(line) = " " THEN RemoveLeadingSpaces(Tail(line)) ELSE line

RECURSIVE DropSpacesAtEnd(_)
DropSpacesAtEnd(line) ==
  IF line # <<>> /\ line[Len(line)] = " "
    THEN DropSpacesAtEnd(SubSeq(line, 1, Len(line) - 1))
    ELSE line

\* re.sub(r" {1,99}$", r"", line): "$" matches at the end of the text and
\* before a newline that ends the text.
RemoveTrailingSpaces(line) ==
  IF line # <<>> /\ line[Len(line)] = "\n"
    THEN DropSpacesAtEnd(SubSeq(line, 1, Len(line) - 1)) \o <<"\n">>
    ELSE DropSpacesAtEnd(line)

line_latex_to_orgmode(line) ==
  RemoveTrailingSpaces(RemoveLeadingSpaces(RewriteTilde(RewriteComment(line))))

(***************************************************************************)
(* The final pass of file_latex_to_orgmode over the written file:          *)
(* re.sub(r" *\n *\n *\n", r"\n\n", lines), SqueezeRounds times.           *)
(***************************************************************************)
SqueezeRounds == 10

\* Position of the first token of s at or after position i that is no space.
RECURSIVE SkipSpaces(_, _)
SkipSpaces(s, i) ==
  IF i <= Len(s) /\ s[i] = " " THEN SkipSpaces(s, i + 1) ELSE i

\* Position after a match of " *\n" that starts at position i; 0 when none.
NewlineAfterSpaces(s, i) ==
  LET k == SkipSpaces(s, i)
  IN IF k <= Len(s) /\ s[k] = "\n" THEN k + 1 ELSE 0

\* Position after a match of " *\n *\n *\n" that starts at i; 0 when none.
BlankRunEnd(s, i) ==
  LET a == NewlineAfterSpaces(s, i)
      b == IF a = 0 THEN 0 ELSE NewlineAfterSpaces(s, a)
  IN IF b = 0 THEN 0 ELSE NewlineAfterSpaces(s, b)

RECURSIVE SqueezeFrom(_, _)
SqueezeFrom(s, i) ==
  IF i > Len(s) THEN <<>>
  ELSE LET e == BlankRunEnd(s, i)
       IN IF e # 0
            THEN <<"\n", "\n">> \o SqueezeFrom(s, e)
            ELSE <<s[i]>> \o SqueezeFrom(s, i + 1)

\* A round that changes nothing is the last one that can change anything.
RECURSIVE RemoveEmptyLines(_, _)
RemoveEmptyLines(s, rounds) ==
  IF rounds = 0 THEN s
  ELSE LET t == SqueezeFrom(s, 1)
       IN IF t = s THEN s ELSE RemoveEmptyLines(t, rounds - 1)

(***************************************************************************)
(* Results of a recognizer: whether it claimed the line, what it wrote,    *)
(* how many further lines it pulled from the stream, and the exception it  *)
(* raised ("" when it returned).                                           *)
(***************************************************************************)
Result(claimed, out, used, exc) ==
  [claimed |-> claimed, out |-> out, used |-> used, exc |-> exc]

NotClaimed == Result(FALSE, <<>>, 0, "")

AttributeError == "AttributeError: 'NoneType' object has no attribute 'group'"

UnboundLocalError == "UnboundLocalError: local variable 'i' referenced before assignment"

UnpackError == "ValueError: wrong number of values to unpack"

IndexError == "IndexError: string index out of range"

CitationError == "ValueError: Unable to find end of citation"

SectionError == "ValueError: Unable to find end of section"

MarkerError == "ValueError: marker is not valid"

StopIteration == "StopIteration"

(***************************************************************************)
(* read_header: the header recognizer.                                     *)
(***************************************************************************)
BeginDocument == <<"\\begin", "{", "document", "}">>

\* re.search(r"\\author{.*\}", nl).group()[8:-1]: the text between the
\* brace after \author and the last closing brace; <<"None">> when the
\* search finds nothing.
AuthorField(nl) ==
  LET I == {p \in 1..(Len(nl) - 1) :
              /\ nl[p] = "\\author"
              /\ nl[p + 1] = "{"
              /\ \E r \in (p + 2)..Len(nl) : nl[r] = "}"}
  IN IF I = {} THEN <<"None">>
     ELSE SubSeq(nl, Min(I) + 2, LastIn(nl, {"}"}) - 1)

\* re.search(r"\{.*\}", nl).group()[1:-1]
BracedField(nl) ==
  LET p == FirstIn(nl, 1, {"{"})
      r == LastIn(nl, {"}"})
  IN IF p = 0 \/ r < p THEN <<"None">> ELSE SubSeq(nl, p + 1, r - 1)

\* A slip: the lines that are no recognized field are not written.
HeaderLine_slip(nl) ==
  IF \E k \in DOMAIN nl : nl[k] = "\\author" THEN
    IF AuthorField(nl) = <<"None">> THEN <<"None">>
    ELSE <<"#+author:", " ">> \o AuthorField(nl) \o <<"\n">>
  ELSE IF \E k \in DOMAIN nl : nl[k] = "\\date" THEN
    IF BracedField(nl) = <<"None">> THEN <<"None">>
    ELSE <<"#+date:", " ">> \o BracedField(nl) \o <<"\n">>
  ELSE IF \E k \in DOMAIN nl : nl[k] = "\\title" THEN
    IF BracedField(nl) = <<"None">> THEN <<"None">>
    ELSE <<"#+title:", " ">> \o BracedField(nl) \o <<"\n">>
  ELSE IF \E k \in DOMAIN nl : nl[k] = "\\email" THEN
    IF BracedField(nl) = <<"None">> THEN <<"None">>
    ELSE <<"#+email:", " ">> \o BracedField(nl) \o <<"\n">>
  ELSE <<>>

\* One round of the while loop of read_header on a non-blank line: the
\* line written to ofl, or <<"None">> when .group() is called on None.
HeaderLine(nl) ==
  IF \E k \in DOMAIN nl : nl[k] = "\\author" THEN
    IF AuthorField(nl) = <<"None">> THEN <<"None">>
    ELSE <<"#+author:", " ">> \o AuthorField(nl) \o <<"\n">>
  ELSE IF \E k \in DOMAIN nl : nl[k] = "\\date" THEN
    IF BracedField(nl) = <<"None">> THEN <<"None">>
    ELSE <<"#+date:", " ">> \o BracedField(nl) \o <<"\n">>
  ELSE IF \E k \in DOMAIN nl : nl[k] = "\\title" THEN
    IF BracedField(nl) = <<"None">> THEN <<"None">>
    ELSE <<"#+title:", " ">> \o BracedField(nl) \o <<"\n">>
  ELSE IF \E k \in DOMAIN nl : nl[k] = "\\email" THEN
    IF BracedField(nl) = <<"None">> THEN <<"None">>
    ELSE <<"#+email:", " ">> \o BracedField(nl) \o <<"\n">>
  ELSE <<"#+latex_header:", " ">> \o nl

\* The line read_header writes for nl (nothing for a blank line).
HeaderWrite(nl) == IF IsBlank(nl) THEN <<>> ELSE HeaderLine(nl)

\* The while loop of read_header: nl is the current line, rest the lines
\* left in the stream, out what was written, used the lines pulled.
RECURSIVE HeaderLoop(_, _, _, _)
HeaderLoop(nl, rest, out, used) ==
  IF Contains(nl, BeginDocument) THEN Result(TRUE, out, used, "")
  ELSE IF HeaderWrite(nl) = <<"None">> THEN Result(TRUE, out, used, AttributeError)
  ELSE IF rest = <<>> THEN Result(TRUE, out \o HeaderWrite(nl), used, StopIteration)
  ELSE HeaderLoop(Head(rest), Tail(rest), out \o HeaderWrite(nl), used + 1)

\* "documentclass" in nl
HeaderOpens(nl) == \E k \in DOMAIN nl : nl[k] = "\\documentclass"

read_header(nl, rest) ==
  IF HeaderOpens(nl) THEN HeaderLoop(nl, rest, <<>>, 0) ELSE NotClaimed

(***************************************************************************)
(* citations: the citation recognizer.                                     *)
(***************************************************************************)
\* "\cite" in nl
CiteOpens(nl) == \E k \in DOMAIN nl : nl[k] \in CiteTokens

Balanced(nl) == Count(nl, "{") = Count(nl, "}")

\* The org-mode citation list: "&" + e.strip() + ";" for every e of
\* cl.split(","), without the last character.
RECURSIVE KeyItems(_)
KeyItems(pieces) ==
  IF pieces = <<>> THEN <<>>
  ELSE <<"&">> \o Strip(Head(pieces)) \o <<";">> \o KeyItems(Tail(pieces))

KeyList(cl) ==
  LET items == KeyItems(Split(cl, <<",">>))
  IN SubSeq(items, 1, Len(items) - 1)

\* The four output shapes (lines 279-288).
CiteOrg(ct, b1, b2, cl) ==
  LET name == CommandName[ct]
      body == IF b1 # <<>> /\ b2 = <<>> THEN <<name, ":">> \o b1 \o <<";">> \o cl \o <<";">>
              ELSE IF b1 # <<>> /\ b2 # <<>>
                THEN <<name, ":">> \o b1 \o <<";">> \o cl \o <<";">> \o b2
              ELSE IF b1 = <<>> /\ b2 # <<>>
                THEN <<name, ":", ";">> \o cl \o <<";">> \o b2
              ELSE <<name, ":">> \o cl
  IN <<"[[">> \o body \o <<"]]">>

\* The parse of the first citation of a balanced nl (lines 200-255):
\* the exception raised ("" when none), the citation command, the two
\* notes, the key list and the complete cite expression ce.
Parsed(exc, ct, b1, b2, cl, ce) ==
  [exc |-> exc, ct |-> ct, b1 |-> b1, b2 |-> b2, cl |-> cl, ce |-> ce]

ParseFailed(exc) == Parsed(exc, "", <<>>, <<>>, <<>>, <<>>)

\* The trivial citation \citetype{keys} (lines 208-215); q is the position
\* of the first "{" after the first citation command.
ParseTrivial(nl, q) ==
  LET ct == nl[q - 1]
      c0 == Find(nl, <<ct, "{">>, 1)
      r  == FirstIn(nl, c0 + 2, {"}"})
  IN IF r = 0 THEN ParseFailed(AttributeError)
     ELSE Parsed("", ct, <<>>, <<>>, SubSeq(nl, c0 + 2, r - 1), SubSeq(nl, c0, r))

\* The citation with optional arguments (lines 224-255).
ParseOptional(nl) ==
  LET T == {t \in 1..(Len(nl) - 1) : nl[t] \in CiteTokens /\ nl[t + 1] = "["}
  IN IF T = {} THEN ParseFailed(AttributeError)
     ELSE
       LET t    == Min(T)
           ct   == nl[t]
           temp == PyFrom(nl, t - 1)
           g1   == get_string_between_brackets(<<"[", "]">>, temp)
           b1   == g1.rs
       IN IF g1.i + 1 >= Len(temp) THEN ParseFailed(IndexError)
          ELSE
            LET second == temp[g1.i + 2] = "["
                g2 == get_string_between_brackets(<<"[", "]">>, PyFrom(temp, g1.i + 1))
                b2 == IF second THEN g2.rs ELSE <<>>
                i1 == IF second THEN g1.i + g2.i ELSE g1.i
                cs == <<ct, "[">> \o b1 \o <<"]">>
                        \o (IF second THEN <<"[">> \o b2 \o <<"]">> ELSE <<>>)
                cq == FirstIn(temp, i1 + 2, {"{"})
                cr == IF cq = 0 THEN 0 ELSE FirstIn(temp, cq + 1, {"}"})
            IN IF cr = 0 THEN ParseFailed(AttributeError)
               ELSE LET cl == SubSeq(temp, cq + 1, cr - 1)
                    IN Parsed("", ct, b1, b2, cl, cs \o <<"{">> \o cl \o <<"}">>)

ParseCitation(nl) ==
  LET p == FirstIn(nl, 1, CiteTokens)
      q == FirstIn(nl, p + 1, {"{"})
  IN IF q = 0 THEN ParseFailed(AttributeError)
     ELSE IF nl[q - 1] \in CiteTokens THEN ParseTrivial(nl, q)
     ELSE ParseOptional(nl)

RECURSIVE citations(_, _)
citations(nl, rest) ==
  IF ~CiteOpens(nl) THEN NotClaimed
  ELSE IF ~Balanced(nl) THEN
    \* next(lines), then i = i + 1 with i never assigned
    IF rest = <<>> THEN Result(TRUE, <<>>, 0, StopIteration)
    ELSE Result(TRUE, <<>>, 1, UnboundLocalError)
  ELSE
    LET c == ParseCitation(nl)
    IN IF c.exc # "" THEN Result(TRUE, <<>>, 0, c.exc)
       ELSE
         LET parts == Split(nl, c.ce)
         IN IF Len(parts) # 2 THEN Result(TRUE, <<>>, 0, UnpackError)
            ELSE
              LET pre_text  == parts[1]
                  post_text == parts[2]
                  line == line_latex_to_orgmode(
                            pre_text \o CiteOrg(c.ct, c.b1, c.b2, KeyList(c.cl)))
                  more == citations(post_text, rest)
              IN IF post_text = <<>> THEN Result(TRUE, line, 0, "")
                 ELSE IF ~more.claimed THEN Result(TRUE, line \o post_text, 0, "")
                 ELSE Result(TRUE, line \o more.out, more.used, more.exc)

(***************************************************************************)
(* section_commands: the sectioning recognizer.                            *)
(***************************************************************************)
marker_dict ==
  [t \in {"chapter", "section", "subsection", "abstract", "subsubsection",
          "paragraph", "subparagraph"} |->
     CASE t = "chapter"       -> <<"*", " ">>
       [] t = "section"       -> <<"*", " ">>
       [] t = "subsection"    -> <<"**", " ">>
       [] t = "abstract"      -> <<"**", " ">>
       [] t = "subsubsection" -> <<"***", " ">>
       [] t = "paragraph"     -> <<"****", " ">>
       [] t = "subparagraph"  -> <<"*****", " ">>]

\* The budget of extra lines of section_commands (line 335).
SectionBudget == 3

\* "chapter" in nl or "section" in nl
SectionOpens(nl) == \E k \in DOMAIN nl : nl[k] \in SectionTokens

\* A slip: the open test knows every command of marker_dict.
SectionOpens_every(nl) ==
  \E k \in DOMAIN nl :
    nl[k] \in SectionTokens \cup {"\\paragraph", "\\subparagraph", "\\abstract"}

\* The text before the first newline: "." matches no newline.
FirstLine(nl) ==
  LET n == FirstIn(nl, 1, {"\n"})
  IN IF n = 0 THEN nl ELSE SubSeq(nl, 1, n - 1)

\* Lines 338-371 on a balanced nl; used is the number of lines pulled.
SectionEmit(nl, used) ==
  LET e == FirstIn(FirstLine(nl), 1, {"}"})
  IN IF e = 0 THEN Result(TRUE, <<>>, used, AttributeError)
     ELSE
       LET section_string == SubSeq(nl, 1, e)
           ob    == FirstIn(section_string, 1, {"["})
           cb    == IF ob = 0 THEN 0 ELSE FirstIn(section_string, ob + 1, {"]"})
           oc    == FirstIn(FirstLine(nl), 1, {"{"})
           tq    == FirstIn(section_string, 1, {"{"})
           short == ob # 0
           section_type ==
             IF short THEN DropFirstChar(SubSeq(nl, 1, ob - 1))
                      ELSE DropFirstChar(SubSeq(nl, 1, oc - 1))
           short_title ==
             IF short
               THEN <<"PROPERTIES:", "\n", ":ALT_TITLE:", " ">>
                      \o SubSeq(section_string, ob, cb) \o <<"\n", ":END:", "\n">>
               ELSE <<>>
           section_title == SubSeq(section_string, tq + 1, e - 1)
           text_after == Split(nl, section_string)[2]
       IN IF short /\ cb = 0 THEN Result(TRUE, <<>>, used, AttributeError)
          ELSE IF ~short /\ oc = 0 THEN Result(TRUE, <<>>, used, AttributeError)
          ELSE IF tq = 0 THEN Result(TRUE, <<>>, used, AttributeError)
          ELSE IF ~(Len(section_type) = 1 /\ section_type[1] \in DOMAIN marker_dict)
            THEN Result(TRUE, <<>>, used, MarkerError)
          ELSE Result(TRUE,
                      marker_dict[section_type[1]] \o section_title \o <<"\n">>
                        \o short_title \o text_after,
                      used, "")

\* The while loop of lines 332-336.
RECURSIVE SectionJoin(_, _, _)
SectionJoin(nl, rest, i) ==
  IF Balanced(nl) THEN SectionEmit(nl, i)
  ELSE IF rest = <<>> THEN Result(TRUE, <<>>, i, StopIteration)
  ELSE IF i + 1 > SectionBudget
    THEN Result(TRUE, <<>>, i + 1, SectionError)
  ELSE SectionJoin(nl \o <<"\n">> \o Head(rest), Tail(rest), i + 1)

section_commands(nl, rest) ==
  IF SectionOpens(nl) THEN SectionJoin(nl, rest, 0) ELSE NotClaimed

(***************************************************************************)
(* special_environments: the environment recognizer.                       *)
(***************************************************************************)
\* Position of the "}" of re.search(r"^\\begin{.*?\}", nl); 0 when no match.
EnvNameEnd(nl) ==
  IF Len(nl) >= 2 /\ nl[1] = "\\begin" /\ nl[2] = "{"
    THEN FirstIn(FirstLine(nl), 3, {"}"})
    ELSE 0

exclude_env == {}

\* is_env.group()[7:-1]
EnvName(nl) == SubSeq(nl, 3, EnvNameEnd(nl) - 1)

EnvOpens(nl) == EnvNameEnd(nl) # 0 /\ EnvName(nl) \notin exclude_env

\* f"end{{{env}}}" in nl
HasEnd(nl, env) == Contains(nl, <<"\\end", "{">> \o env \o <<"}">>)

BeginExport == <<"\n", "#+BEGIN_EXPORT", " ", "latex", "\n">>

EndExport(env) ==
  <<"\\end", "{">> \o env \o <<"}", "\n">> \o <<"#+END_EXPORT", "\n", "\n">>

(***************************************************************************)
(* The if/elif chain of file_latex_to_orgmode (lines 430-441): the         *)
(* recognizers called for a line, in call order, and the one that handles  *)
(* it (the Line Rewriter when every recognizer returned False).            *)
(***************************************************************************)
Dispatch_swapped(line) ==
  IF HeaderOpens(line)
    THEN [offered |-> <<"read_header">>, handler |-> "read_header"]
  ELSE IF CiteOpens(line)
    THEN [offered |-> <<"read_header", "citations">>, handler |-> "citations"]
  ELSE IF SectionOpens(line)
    THEN [offered |-> <<"read_header", "citations", "section_commands">>,
          handler |-> "section_commands"]
  ELSE IF EnvOpens(line)
    THEN [offered |-> <<"read_header", "citations", "section_commands",
                        "special_environments">>,
          handler |-> "special_environments"]
  ELSE [offered |-> <<"read_header", "citations", "section_commands",
                      "special_environments">>,
        handler |-> "line_latex_to_orgmode"]

Dispatch(line) ==
  IF HeaderOpens(line)
    THEN [offered |-> <<"read_header">>, handler |-> "read_header"]
  ELSE IF SectionOpens(line)
    THEN [offered |-> <<"read_header", "section_commands">>,
          handler |-> "section_commands"]
  ELSE IF EnvOpens(line)
    THEN [offered |-> <<"read_header", "section_commands", "special_environments">>,
          handler |-> "special_environments"]
  ELSE IF CiteOpens(line)
    THEN [offered |-> <<"read_header", "section_commands", "special_environments",
                        "citations">>,
          handler |-> "citations"]
  ELSE [offered |-> <<"read_header", "section_commands", "special_environments",
                      "citations">>,
        handler |-> "line_latex_to_orgmode"]

(***************************************************************************)
(* Input documents.                                                        *)
(***************************************************************************)
MaxPreamble == 2

MaxConstructs == 1

MaxTail == 4

PlainLines ==
  { <<"\n">>,
    <<" ", "a", "~", "b", " ", "\n">>,
    <<"%", "a", "\n">>,
    <<"b", "}", "\n">> }

CiteLines ==
  { <<"\\citep", "{", "a", ",", " ", "b", "}", "\n">>,
    <<"a", " ", "\\citep", "{", "a", "}", " ", "b", " ", "\\citet", "[", "a", "]", "[", "b", "]",
      "{", "b", "}", "~", "\n">>,
    <<"\\citep", "{", "a", "}", "\\citep", "{", "a", "}", "\n">>,
    <<"\\citep", "[", "a", "]", "{", "a", "}", "\n">>,
    <<"\\citep", "[", "]", "[", "b", "]", "{", "a", "}", "\n">>,
    <<"\\citep", "{", "a", ",", "\n">> }

SectionLines ==
  { <<"\\section", "{", "a", "}", "\n">>,
    <<"\\section", "[", "b", "]", "{", "a", "}", "\n">>,
    <<"\\subsection", "{", "a", "}", " ", "\\citep", "{", "b", "}", "\n">>,
    <<"\\paragraph", "{", "a", "}", "\n">>,
    <<"a", " ", "section", "\n">> }

EnvLines ==
  { <<"\\begin", "{", "equation", "}", "\n">>,
    <<"a", "~", " ", "\\end", "{", "equation", "}", " ", "b", "\n">>,
    <<"\\begin", "{", "equation", "}", " ", "a", " ", "\\end", "{", "equation", "}", "\n">> }

BodyLines == PlainLines \cup CiteLines \cup SectionLines \cup EnvLines

PreambleLines ==
  { <<"\\author", "{", "a", "}", "\n">>,
    <<"\\title", "{", "b", "}", "\n">>,
    <<"\\usepackage", "{", "a", "}", "\n">>,
    <<"\n">> }

DocumentClass == <<"\\documentclass", "{", "article", "}", "\n">>

\* Lines that section_commands claims and that hold no complete heading: a
\* heading whose brace is still open, and prose with a brace pair after
\* the word.
OpenLines ==
  { <<"\\section", "{", "a", "\n">>,
    <<"a", " ", "section", " ", "{", "b", "}", "\n">> }

SeqsUpTo(S, n) == UNION {[1..k -> S] : k \in 0..n}

\* The number of lines of d that open a construct.
Constructs(d) ==
  Cardinality({k \in DOMAIN d : Dispatch(d[k]).handler # "line_latex_to_orgmode"})

\* A body of up to MaxLines lines of which at most MaxConstructs open a
\* construct, or a preamble of up to MaxPreamble lines (closed by the
\* body-start marker or not) followed by at most one line, or one of
\* OpenLines followed by up to MaxTail lines that open no construct.
Documents ==
  {d \in SeqsUpTo(BodyLines, MaxLines) : Constructs(d) <= MaxConstructs}
    \cup { <<DocumentClass>> \o p \o c \o b :
             p \in SeqsUpTo(PreambleLines, MaxPreamble),
             c \in {<<>>, <<BeginDocument \o <<"\n">>>>},
             b \in SeqsUpTo(PlainLines, 1) }
    \cup { <<o>> \o b : o \in OpenLines, b \in SeqsUpTo(PlainLines, MaxTail) }

(***************************************************************************)
(* State.                                                                  *)
(***************************************************************************)
VARIABLES
  infile,   \* the input file: a sequence of lines
  lines,    \* the lines not yet pulled from the input stream
  ofl,      \* the text of the output file
  pc,       \* "loop", "env", "eof", "done", "raised", or "call"
  exc,      \* the uncaught exception that ended the run, "" when none
  iline,    \* the line counter of file_latex_to_orgmode
  pending,  \* the line last pulled by the scan loop
  offered,  \* the recognizers called for it, in call order
  handler,  \* the function that handled it
  nl,       \* special_environments: the current line
  env,      \* special_environments: the environment name
  string,   \* argument of a call of get_string_between_brackets
  span      \* its result, or NoSpan before the call

vars ==
  <<infile, lines, ofl, pc, exc, iline, pending, offered, handler, nl, env,
    string, span>>

NoSpan == [rs |-> <<>>, j |-> -1, i |-> -1]

(***************************************************************************)
(* file_latex_to_orgmode.                                                  *)
(***************************************************************************)
Init ==
  /\ infile \in Documents
  /\ lines = infile
  /\ ofl = <<>>
  /\ pc = "loop"
  /\ exc = ""
  /\ iline = 0
  /\ pending = <<>>
  /\ offered = <<>>
  /\ handler = ""
  /\ nl = <<>>
  /\ env = <<>>
  /\ string = <<>>
  /\ span = NoSpan

\* The scan loop pulls Head(lines) and the function named name handles it
\* with result r: what it wrote is appended to ofl, the lines it pulled
\* leave the stream, StopIteration ends the loop (line 443) and any other
\* exception ends the run.
Handle(name, r) ==
  /\ iline' = iline + 1
  /\ pending' = Head(lines)
  /\ offered' = Dispatch(Head(lines)).offered
  /\ handler' = name
  /\ ofl' = ofl \o r.out
  /\ lines' = SubSeq(Tail(lines), r.used + 1, Len(lines) - 1)
  /\ exc' = IF r.exc = StopIteration THEN "" ELSE r.exc
  /\ pc' = IF r.exc = "" THEN "loop"
           ELSE IF r.exc = StopIteration THEN "eof" ELSE "raised"
  /\ UNCHANGED <<infile, nl, env, string, span>>

Pulls(name) ==
  /\ pc = "loop"
  /\ lines # <<>>
  /\ Dispatch(Head(lines)).handler = name

HeaderStep ==
  /\ Pulls("read_header")
  /\ Handle("read_header", read_header(Head(lines), Tail(lines)))

SectionStep ==
  /\ Pulls("section_commands")
  /\ Handle("section_commands", section_commands(Head(lines), Tail(lines)))

CitationStep ==
  /\ Pulls("citations")
  /\ Handle("citations", citations(Head(lines), Tail(lines)))

\* A slip: the fall-through writes the line as it was read.
RewriteStep_verbatim ==
  /\ Pulls("line_latex_to_orgmode")
  /\ Handle("line_latex_to_orgmode", Result(TRUE, Head(lines), 0, ""))

RewriteStep ==
  /\ Pulls("line_latex_to_orgmode")
  /\ Handle("line_latex_to_orgmode",
            Result(TRUE, line_latex_to_orgmode(Head(lines)), 0, ""))

\* special_environments up to its while loop (lines 388-396).
EnvBegin ==
  /\ Pulls("special_environments")
  /\ iline' = iline + 1
  /\ pending' = Head(lines)
  /\ offered' = Dispatch(Head(lines)).offered
  /\ handler' = "special_environments"
  /\ ofl' = ofl \o BeginExport
  /\ nl' = Head(lines)
  /\ env' = EnvName(Head(lines))
  /\ lines' = Tail(lines)
  /\ pc' = "env"
  /\ UNCHANGED <<infile, exc, string, span>>

\* One round of the while loop (lines 397-400): next(lines) is inside the
\* test for a non-blank line, so a blank line changes nothing.
EnvLoop ==
  /\ pc = "env"
  /\ ~HasEnd(nl, env)
  /\ IF IsBlank(nl)
       THEN UNCHANGED vars
       ELSE /\ ofl' = ofl \o nl
            /\ IF lines = <<>>
                 THEN /\ pc' = "eof"
                      /\ UNCHANGED <<nl, lines>>
                 ELSE /\ nl' = Head(lines)
                      /\ lines' = Tail(lines)
                      /\ pc' = "env"
            /\ UNCHANGED <<infile, exc, iline, pending, offered, handler, env,
                           string, span>>

\* Lines 401-406.
EnvEnd ==
  /\ pc = "env"
  /\ HasEnd(nl, env)
  /\ ofl' = ofl \o EndExport(env)
  /\ pc' = "loop"
  /\ UNCHANGED <<infile, lines, exc, iline, pending, offered, handler, nl, env,
                 string, span>>

\* next(lines) raises StopIteration in the scan loop (lines 429, 443).
EndOfStream ==
  /\ pc = "loop"
  /\ lines = <<>>
  /\ iline' = iline + 1
  /\ pc' = "eof"
  /\ UNCHANGED <<infile, lines, ofl, exc, pending, offered, handler, nl, env,
                 string, span>>

\* Lines 447-464: the file is read back, squeezed and written again.
PostProcess ==
  /\ pc = "eof"
  /\ ofl' = RemoveEmptyLines(ofl, SqueezeRounds)
  /\ pc' = "done"
  /\ UNCHANGED <<infile, lines, exc, iline, pending, offered, handler, nl, env,
                 string, span>>

Next ==
  \/ HeaderStep
  \/ SectionStep
  \/ EnvBegin
  \/ EnvLoop
  \/ EnvEnd
  \/ CitationStep
  \/ RewriteStep
  \/ EndOfStream
  \/ PostProcess

Spec == Init /\ [][Next]_vars

(***************************************************************************)
(* The Bracket-Span Extractor applied to every bounded string.             *)
(***************************************************************************)
Chars == {"{", "}", "a", "b"}

Strings == SeqsUpTo(Chars, MaxStrLen)

InitExtract ==
  /\ string \in Strings
  /\ span = NoSpan
  /\ pc = "call"
  /\ infile = <<>>
  /\ lines = <<>>
  /\ ofl = <<>>
  /\ exc = ""
  /\ iline = 0
  /\ pending = <<>>
  /\ offered = <<>>
  /\ handler = ""
  /\ nl = <<>>
  /\ env = <<>>

CallExtract ==
  /\ pc = "call"
  /\ span = NoSpan
  /\ span' = get_string_between_brackets(<<"{", "}">>, string)
  /\ UNCHANGED <<infile, lines, ofl, pc, exc, iline, pending, offered, handler,
                 nl, env, string>>

NextExtract == CallExtract

SpecExtract == InitExtract /\ [][NextExtract]_vars

(***************************************************************************)
(* Properties of the scan loop.                                            *)
(***************************************************************************)
\* No open-condition of a recognizer matches any line of d.
NoConstruct(d) ==
  \A k \in DOMAIN d :
    /\ ~HeaderOpens(d[k])
    /\ ~SectionOpens(d[k])
    /\ EnvNameEnd(d[k]) = 0
    /\ ~CiteOpens(d[k])

\* The Line Rewriter applied to each line of d, concatenated in order.
RewrittenLines(d) == Flatten([k \in DOMAIN d |-> line_latex_to_orgmode(d[k])])

\* C1 (as amended): for an input whose lines open no construct, the scan
\* loop writes the Line Rewriter's result for each line, in input order,
\* and the final output is that text after the closing pass that replaces
\* every run of three newlines (spaces allowed before each) by two.
C1_PassThroughThenSqueeze ==
  /\ (pc = "eof" /\ NoConstruct(infile)) => ofl = RewrittenLines(infile)
  /\ (pc = "done" /\ NoConstruct(infile)) =>
       ofl = RemoveEmptyLines(RewrittenLines(infile), SqueezeRounds)

\* C1 (as stated): the final output equals the rewritten lines, concatenated,
\* with nothing altered afterwards.
C1_NothingAlteredAfterwards ==
  (pc = "done" /\ NoConstruct(infile)) => ofl = RewrittenLines(infile)

\* A finished run without constructs in which the rewriter changed a line
\* and the closing pass removed an empty line.
C1_Witness ==
  /\ pc = "done"
  /\ NoConstruct(infile)
  /\ RewrittenLines(infile) # Flatten(infile)
  /\ ofl # RewrittenLines(infile)

\* The recognizers of the scan loop in their call order.
CodeOrder ==
  <<"read_header", "section_commands", "special_environments", "citations">>

OpensBy(name, line) ==
  CASE name = "read_header"          -> HeaderOpens(line)
    [] name = "section_commands"     -> SectionOpens(line)
    [] name = "special_environments" -> EnvNameEnd(line) # 0
    [] name = "citations"            -> CiteOpens(line)

SpecOrder ==
  <<"header", "sectioning", "math-environment", "special-environment",
    "citation", "bibliography", "comment">>

RecognizerOf(name) ==
  CASE name = "read_header"          -> "header"
    [] name = "section_commands"     -> "sectioning"
    [] name = "special_environments" -> "special-environment"
    [] name = "citations"            -> "citation"

CitationBudget == 10

\* The braces of line do not balance after any number of continuation
\* lines within the budget.
NeverBalances(line, rest) ==
  \A k \in 0..(IF Len(rest) < CitationBudget THEN Len(rest) ELSE CitationBudget) :
    ~Balanced(line \o Flatten(SubSeq(rest, 1, k)))

\* C3: a citation whose braces never balance within the budget ends the
\* run with the fatal error that names the citation, never with a normal
\* completion, also when the stream is exhausted with the citation open.
C3_NamedFatalError ==
  ( /\ iline = 1
    /\ handler = "citations"
    /\ pc \in {"eof", "done", "raised"}
    /\ NeverBalances(infile[1], Tail(infile)) )
  => (pc = "raised" /\ exc = CitationError)

\* The output the claim C4 asks for: every citation converted, in order,
\* and every text segment, the last one included, rewritten.
RECURSIVE ExpectedCitations(_)
ExpectedCitations(text) ==
  IF ~CiteOpens(text) THEN line_latex_to_orgmode(text)
  ELSE LET c == ParseCitation(text)
           p == Find(text, c.ce, 1)
       IN IF c.exc # "" \/ p = 0 THEN <<>>
          ELSE line_latex_to_orgmode(
                 SubSeq(text, 1, p - 1) \o CiteOrg(c.ct, c.b1, c.b2, KeyList(c.cl)))
               \o (IF p + Len(c.ce) > Len(text) THEN <<>>
                   ELSE ExpectedCitations(SubSeq(text, p + Len(c.ce), Len(text))))

\* C4: on a line with one or more citations (two identical ones included)
\* every citation is converted, in order, and the text before, between and
\* after the citations is passed through the Line Rewriter.
C4_EveryCitationAndSegment ==
  ( /\ iline = 1
    /\ handler = "citations"
    /\ Balanced(pending)
    /\ pc \in {"loop", "raised"} )
  => (pc = "loop" /\ ofl = ExpectedCitations(pending))

\* A citation as the claim C7 describes it: command, notes, keys.
RECURSIVE JoinKeys(_)
JoinKeys(keys) ==
  IF Len(keys) = 1 THEN keys[1] ELSE keys[1] \o <<",">> \o JoinKeys(Tail(keys))

CitationText(c, notes, keys) ==
  <<c>> \o Flatten([k \in DOMAIN notes |-> <<"[">> \o notes[k] \o <<"]">>])
        \o <<"{">> \o JoinKeys(keys) \o <<"}">>

RECURSIVE ClaimedKeys(_)
ClaimedKeys(keys) ==
  IF Len(keys) = 1 THEN <<"&">> \o Strip(keys[1])
  ELSE <<"&">> \o Strip(keys[1]) \o <<";">> \o ClaimedKeys(Tail(keys))

\* [[c:p;&k1;...;&kn;q]] with "p;" and ";q" only for a note that is present.
ClaimedOrg(c, notes, keys) ==
  LET pre  == IF Len(notes) >= 1 THEN notes[1] ELSE <<>>
      post == IF Len(notes) >= 2 THEN notes[2] ELSE <<>>
  IN <<"[[", CommandName[c], ":">>
       \o (IF pre # <<>> THEN pre \o <<";">> ELSE <<>>)
       \o ClaimedKeys(keys)
       \o (IF post # <<>> THEN <<";">> \o post ELSE <<>>)
       \o <<"]]">>

Notes == {<<>>, <<"a">>, <<"b">>}

KeyLists == {<< <<"a">> >>, << <<"a">>, <<" ", "b">> >>}

\* C7: a citation whose braces balance, on one line or across continuation
\* lines joined with spaces, is emitted as [[c:p;&k1;...;&kn;q]] with no
\* leading or trailing ";" for an absent note.
C7_CitationShape ==
  /\ \A c \in CiteTokens, notes \in SeqsUpTo(Notes, 2), keys \in KeyLists :
       (infile = <<CitationText(c, notes, keys) \o <<"\n">>>> /\ pc = "done")
         => ofl = ClaimedOrg(c, notes, keys) \o <<"\n">>
  /\ (infile = << <<"\\citep", "{", "a", ",", "\n">>, <<"b", "}", "\n">> >>
        /\ pc \in {"done", "raised"})
       => (pc = "done" /\ SubSeq(ofl, 1, 9) = ClaimedOrg("\\citep", <<>>, << <<"a">>, <<"b">> >>))

(***************************************************************************)
(* Properties of the sectioning recognizer.                                *)
(***************************************************************************)
\* The text after the first closing brace of a line.
TrailingText(line) == PyFrom(line, FirstIn(line, 1, {"}"}))

\* C5: the text after the closing brace of a sectioning command is
\* dispatched again, so that a citation in it is converted.
C5_TrailingTextRedispatched ==
  ( /\ iline = 1
    /\ handler = "section_commands"
    /\ pc = "loop"
    /\ CiteOpens(TrailingText(pending)) )
  => ( /\ ~CiteOpens(ofl)
       /\ ofl = SubSeq(ofl, 1, Len(ofl) - Len(ExpectedCitations(TrailingText(pending))))
                  \o ExpectedCitations(TrailingText(pending)) )

\* The heading depth of the sectioning commands.
SectionDepth ==
  [t \in {"\\chapter", "\\section", "\\subsection", "\\abstract", "\\subsubsection",
          "\\paragraph", "\\subparagraph"} |->
     CASE t \in {"\\chapter", "\\section"}     -> "*"
       [] t \in {"\\subsection", "\\abstract"} -> "**"
       [] t = "\\subsubsection"                -> "***"
       [] t = "\\paragraph"                    -> "****"
       [] t = "\\subparagraph"                 -> "*****"]

\* C8: \cmd{T} is emitted as a heading of the depth of cmd followed by T,
\* and \cmd[S]{T} as the same heading followed by a properties block with
\* ":ALT_TITLE: S", S being the text between the square brackets.
C8_HeadingAndAltTitle ==
  \A cmd \in DOMAIN SectionDepth :
    /\ (infile = << <<cmd, "{", "a", "}", "\n">> >> /\ pc = "done")
         => SubSeq(ofl, 1, 4) = <<SectionDepth[cmd], " ", "a", "\n">>
    /\ (infile = << <<cmd, "[", "b", "]", "{", "a", "}", "\n">> >> /\ pc = "done")
         => /\ SubSeq(ofl, 1, 4) = <<SectionDepth[cmd], " ", "a", "\n">>
            /\ Contains(ofl, <<":ALT_TITLE:", " ", "b", "\n">>)

(***************************************************************************)
(* Properties of the environment recognizer.                               *)
(***************************************************************************)
\* C6: every line from the line that opens an environment through the line
\* with the end token is emitted once, in order and unmodified, between
\* the begin marker and the end marker.
C6_EnvironmentVerbatim ==
  ( /\ iline = 1
    /\ handler = "special_environments"
    /\ pc = "loop" )
  => ofl = BeginExport
             \o Flatten(SubSeq(infile, 1, Len(infile) - Len(lines)))
             \o <<"#+END_EXPORT", "\n", "\n">>

(***************************************************************************)
(* Properties of the header recognizer.                                    *)
(***************************************************************************)
FieldTags == {"#+title:", "#+author:", "#+email:", "#+date:"}

LineTags == FieldTags \cup {"#+latex_header:"}

\* The directives of a text, in order.
Tags(text) == SelectSeq(text, LAMBDA t : t \in LineTags)

\* The directive read_header gives a non-blank preamble line.
TagOf(line) ==
  IF \E k \in DOMAIN line : line[k] = "\\author" THEN "#+author:"
  ELSE IF \E k \in DOMAIN line : line[k] = "\\date" THEN "#+date:"
  ELSE IF \E k \in DOMAIN line : line[k] = "\\title" THEN "#+title:"
  ELSE IF \E k \in DOMAIN line : line[k] = "\\email" THEN "#+email:"
  ELSE "#+latex_header:"

\* The header opened on the first line and closed on the body-start marker.
HeaderClosed == iline = 1 /\ handler = "read_header" /\ pc = "loop"

\* The lines of the preamble, without the line of the body-start marker.
Preamble == SubSeq(infile, 1, Len(infile) - Len(lines) - 1)

NonBlank(d) == SelectSeq(d, LAMBDA l : ~IsBlank(l))

Rank(tag) ==
  CASE tag = "#+title:" -> 1 [] tag = "#+author:" -> 2
    [] tag = "#+email:" -> 3 [] tag = "#+date:" -> 4

Depth(s, m) ==
  Cardinality({k \in 1..(m + 1) : s[k] = "{"})
    - Cardinality({k \in 1..(m + 1) : s[k] = "}"})

\* The text begins with the opening delimiter and contains its match.
WellFormed(s) ==
  /\ s # <<>>
  /\ s[1] = "{"
  /\ \E m \in 0..(Len(s) - 1) : Depth(s, m) = 0

\* 0-based offset of the delimiter that closes the first one.
MatchOffset(s) == Min({m \in 0..(Len(s) - 1) : Depth(s, m) = 0})

\* C10: for a text that begins with the opening delimiter and contains its
\* matching closing delimiter, the extractor returns the text strictly
\* between the outermost pair, start offset 0 (nothing precedes the opening
\* delimiter) and the offset of the matching closing delimiter, so that
\* text[endOffset+1:] is the remaining text.
C10_BracketSpan ==
  (span # NoSpan /\ WellFormed(string)) =>
    /\ span.i = MatchOffset(string)
    /\ span.j = 0
    /\ span.rs = PySlice(string, 1, MatchOffset(string))
    /\ string = <<"{">> \o span.rs \o <<"}">> \o PyFrom(string, span.i + 1)

\* The nested example of the specification: {a{b}a} gives a{b}a and 6.
C10_Witness ==
  /\ string = <<"{", "a", "{", "b", "}", "a", "}">>
  /\ span = [rs |-> <<"a", "{", "b", "}", "a">>, j |-> 0, i |-> 6]

(***************************************************************************)
(* Properties of the consume loop of the environment recognizer.           *)
(***************************************************************************)
\* The end token of the opened environment is on a line still in the stream.
EndLater == \E k \in DOMAIN lines : HasEnd(lines[k], env)

\* The consume loop is at a line that does not hold the end token.
Consuming == pc = "env" /\ ~HasEnd(nl, env)

\* C11: whenever the environment recognizer is in its consume loop at a
\* line without the end token and a line with the matching end token is
\* still to come, the iteration it takes pulls the next line from the
\* stream, also when the current line is empty or whitespace-only (so the
\* recognizer reaches the end token and returns to the dispatcher).
C11_EveryIterationAdvances ==
  (Consuming /\ EndLater) => ENABLED (EnvLoop /\ lines' = Tail(lines))

(***************************************************************************)
(* Properties of a construct whose closing condition never occurs.         *)
(***************************************************************************)
\* The recognizers that read on until a closing condition holds.
Recognizers == {"read_header", "section_commands", "special_environments"}

\* The run is over: the scan loop ended on StopIteration or an exception
\* left it.
RunOver == pc \in {"eof", "done", "raised"}

\* The closing condition of the construct that the line at index k of the
\* input opens holds on no line from k to the end of the input.
NeverCloses(name, k) ==
  CASE name = "read_header" ->
         \A m \in k..Len(infile) : ~Contains(infile[m], BeginDocument)
    [] name = "section_commands" ->
         \A m \in k..Len(infile) : ~Balanced(Flatten(SubSeq(infile, k, m)))
    [] name = "special_environments" ->
         \A m \in k..Len(infile) : ~HasEnd(infile[m], EnvName(infile[k]))

\* The last line the scan loop pulled is the line at index k, a recognizer
\* of Recognizers claimed it, and its construct never closes.
LeftOpen(k) ==
  /\ handler \in Recognizers
  /\ infile[k] = pending
  /\ NeverCloses(handler, k)

\* The number of lines pulled after the line at index k.
ExtraLines(k) == Len(infile) - Len(lines) - k

\* The fatal errors of the source that name a construct (lines 198, 336).
ParseErrors == {CitationError, SectionError}

\* C12: when the run is over and the header, sectioning or environment
\* recognizer had opened a construct whose closing condition occurs
\* nowhere in the remaining input, the run was aborted by a fatal parse
\* error that names the construct, after only a small fixed number of
\* extra lines; it did not consume the rest of the document and end as a
\* normal completion.
C12_UnclosedConstructAborts ==
  \A k \in DOMAIN infile :
    (RunOver /\ LeftOpen(k)) =>
      /\ pc = "raised"
      /\ exc \in ParseErrors
      /\ ExtraLines(k) <= CitationBudget

(***************************************************************************)
(* Properties of the open test of the sectioning recognizer.               *)
(***************************************************************************)
\* Tokens whose text ends with a command name of marker_dict: the
\* sectioning commands and the bare words.
SectionNames ==
  {t \in DOMAIN CommandName : CommandName[t] \in DOMAIN marker_dict}
    \cup (Words \cap DOMAIN marker_dict)

\* A sectioning command name of line is immediately followed by "{" or "[".
CommandDelimited(line) ==
  \E k \in 1..(Len(line) - 1) :
    line[k] \in SectionNames /\ line[k + 1] \in {"{", "["}

\* The line holds the text "chapter" or "section" and no delimited command.
Prose(line) == SectionOpens(line) /\ ~CommandDelimited(line)

\* C13: the sectioning recognizer handles a line only if a sectioning
\* command name of the line is immediately followed by "{" or "["; a line
\* that holds the word "section" or "chapter" without such a command (with
\* or without braces elsewhere) is not claimed, ends the run with no
\* error, is offered to the recognizers after the sectioning one and, when
\* none of them opens on it, is handled by the Line Rewriter.
C13_ProseNotClaimed ==
  pending # <<>> =>
    /\ handler = "section_commands" => CommandDelimited(pending)
    /\ (Prose(pending) /\ ~HeaderOpens(pending)) =>
         /\ pc # "raised"
         /\ \E n \in 3..Len(CodeOrder) : offered = SubSeq(CodeOrder, 1, n)
         /\ (~EnvOpens(pending) /\ ~CiteOpens(pending)) =>
              handler = "line_latex_to_orgmode"

====
